---- MODULE Spec2Model ----
(***************************************************************************)
(* A model of foloinfo/openai-streams:                                     *)
(*   - fetchWithBackoff (src/src/lib/backoff.ts): the retry loop around    *)
(*     one fetch, one step per suspension point of the async function;     *)
(*   - EventStream (src/src/lib/streaming/streams.ts): the start()         *)
(*     callback of the ReadableStream, one step per chunk of the source    *)
(*     (the body of the for-await loop runs without suspension unless it   *)
(*     ends the run), next to the consumer reading the output.             *)
(*                                                                         *)
(* Text is a sequence of one-character strings, bytes a sequence of byte   *)
(* names. An ASCII character is its own byte; the character U+00E9 is the   *)
(* two bytes "C3" "A9". The JSON texts of the model are drawn from a small *)
(* language in which the content of an object is written as one letter:    *)
(*   x  for a member such as  "x":1                                        *)
(*   U+00E9  for a member whose string value holds that character          *)
(*   S  for  "choices":[{"finish_reason":"stop"}]                          *)
(*   L  for  "choices":[{"finish_reason":"length"}]                        *)
(*   M  for  "choices":[{"finish_reason":"length"},{"finish_reason":"stop"}]*)
(*   N  for  "choices":[{"finish_reason":"stop"},{"finish_reason":"length"}]*)
(*   O  for  "choices":[{"finish_reason":null},{"finish_reason":"stop"}]   *)
(*   R  for  "error":{"message":"..."}                                     *)
(*   P  for  the members of S and of R,  Q  for the members of L and of R  *)
(* so that  {S}  reads  {"choices":[{"finish_reason":"stop"}]}.            *)
(***************************************************************************)
EXTENDS Integers, Sequences, FiniteSets, TLC

(***************************************************************************)
(* Bounds of the model.                                                    *)
(***************************************************************************)
MaxRetriesBound == 3
MaxEvents == 3
MaxChars == 3

(***************************************************************************)
(* Part 1: fetchWithBackoff.                                               *)
(***************************************************************************)
VARIABLES
  maxRetries,   \* backoffOptions.maxRetries, or its default
  initialDelay, \* backoffOptions.delay, or its default
  delay,        \* the local variable delay
  i,            \* the loop counter
  bpc,          \* where the async function stands
  fetched,      \* what each call of fetch produced, in order
  trace,        \* the calls made to the outside: fetch, hook, sleep
  thrown,       \* the message of the error the call failed with, or "none"
  returned      \* the response the call returned, or "none"

bvars == <<maxRetries, initialDelay, delay, i, bpc, fetched, trace, thrown, returned>>

DefaultMaxRetries == 7
DefaultDelay == 500

RateLimitMessage == "RATE_LIMIT_REACHED"
MaxRetriesMessage == "Max retries reached."

\* The policies a caller may pass: maxRetries and delay are plain numbers.
PolicyMaxRetries == (-1 .. MaxRetriesBound) \cup {DefaultMaxRetries}
PolicyDelays == {0, 1, 3, DefaultDelay}

\* What one call of fetch may produce: an error it throws (with its message),
\* or a response with its ok flag and its body as response.json() reads it.
FetchOutcomes ==
  { [kind |-> "throws", message |-> m] : m \in {"network down", RateLimitMessage} }
  \cup { [kind |-> "response", ok |-> TRUE, body |-> "any"] }
  \cup { [kind |-> "response", ok |-> FALSE, body |-> b] :
           b \in {"type RATE_LIMIT_REACHED", "error.code 429",
                  "other object", "null", "not JSON"} }

\* A rate-limit body: errorData.type === "RATE_LIMIT_REACHED" or
\* errorData?.error?.code === "429".
IsRateLimitBody(b) == b \in {"type RATE_LIMIT_REACHED", "error.code 429"}

IsRateLimitedResponse(r) ==
  r.kind = "response" /\ ~r.ok /\ IsRateLimitBody(r.body)

\* The try block: the message of the error it throws, or "none" when it
\* reaches `return response`.
TryBlockThrows(r) ==
  IF r.kind = "throws" THEN r.message
  ELSE IF r.ok THEN "none"
  ELSE IF r.body = "not JSON" THEN "SyntaxError"
  ELSE IF r.body = "null" THEN "TypeError"
  ELSE IF IsRateLimitBody(r.body) THEN RateLimitMessage
  ELSE "none"

\* The condition of the catch block under which the loop goes on; and the
\* same condition with the bound of the for statement, i <= maxRetries.
ShouldRetryLoose(message, idx, max) == message = RateLimitMessage /\ idx <= max
ShouldRetry(message, idx, max) == message = RateLimitMessage /\ idx < max

\* delay *= 2; and a delay that is left as it is.
NextDelayConstant(d) == d
NextDelay(d) == d * 2

BInit ==
  /\ maxRetries \in PolicyMaxRetries
  /\ initialDelay \in PolicyDelays
  /\ delay = initialDelay
  /\ i = 0
  /\ bpc = "loop"
  /\ fetched = <<>>
  /\ trace = <<>>
  /\ thrown = "none"
  /\ returned = "none"

\* for (let i = 0; i <= maxRetries; ...), and the throw after the loop.
LoopTest ==
  /\ bpc = "loop"
  /\ IF i <= maxRetries
       THEN /\ bpc' = "fetch"
            /\ UNCHANGED thrown
       ELSE /\ bpc' = "thrown"
            /\ thrown' = MaxRetriesMessage
  /\ UNCHANGED <<maxRetries, initialDelay, delay, i, fetched, trace, returned>>

\* await fetch(input, init), the inspection of the response, and the test of
\* the catch block.
Fetch ==
  /\ bpc = "fetch"
  /\ \E r \in FetchOutcomes :
       /\ fetched' = Append(fetched, r)
       /\ trace' = Append(trace, [call |-> "fetch", retries |-> i, delay |-> delay])
       /\ LET message == TryBlockThrows(r) IN
            IF message = "none"
              THEN /\ bpc' = "returned"
                   /\ returned' = r
                   /\ UNCHANGED thrown
              ELSE IF ShouldRetry(message, i, maxRetries)
                THEN /\ bpc' = "hook"
                     /\ UNCHANGED <<thrown, returned>>
                ELSE /\ bpc' = "thrown"
                     /\ thrown' = message
                     /\ UNCHANGED returned
  /\ UNCHANGED <<maxRetries, initialDelay, delay, i>>

\* await onRateLimitReached({ retries: i, delay })
Hook ==
  /\ bpc = "hook"
  /\ trace' = Append(trace, [call |-> "hook", retries |-> i, delay |-> delay])
  /\ bpc' = "sleep"
  /\ UNCHANGED <<maxRetries, initialDelay, delay, i, fetched, thrown, returned>>

\* await new Promise((resolve) => setTimeout(resolve, delay)); delay *= 2; i++
Sleep ==
  /\ bpc = "sleep"
  /\ trace' = Append(trace, [call |-> "sleep", retries |-> i, delay |-> delay])
  /\ delay' = NextDelay(delay)
  /\ i' = i + 1
  /\ bpc' = "loop"
  /\ UNCHANGED <<maxRetries, initialDelay, fetched, thrown, returned>>



(***************************************************************************)
(* Part 2: text, bytes, the shared decoder and encoder, JSON.parse.        *)
(***************************************************************************)
NL == "\n"
REPL == "U+FFFD"

IsSpace(c) == c \in {" ", NL}

\* TextDecoder.decode(chunk, { stream: true }) of UTF-8: `pending` holds the
\* lead byte of a character whose second byte has not arrived. A lead byte
\* followed by a byte that does not continue it, and a continuation byte
\* with no lead, each decode to U+FFFD.
IsLeadByte(b) == b = "C3"
IsContinuationByte(b) == b = "A9"

RECURSIVE DecodeText(_, _)
DecodeText(pending, bytes) ==
  IF bytes = <<>> THEN <<>>
  ELSE LET b == Head(bytes) IN
    IF pending = <<>>
      THEN IF IsLeadByte(b) THEN DecodeText(<<b>>, Tail(bytes))
           ELSE IF IsContinuationByte(b) THEN <<REPL>> \o DecodeText(<<>>, Tail(bytes))
           ELSE <<b>> \o DecodeText(<<>>, Tail(bytes))
      ELSE IF IsContinuationByte(b) THEN <<"U+00E9">> \o DecodeText(<<>>, Tail(bytes))
           ELSE <<REPL>> \o DecodeText(<<>>, bytes)

RECURSIVE DecodePending(_, _)
DecodePending(pending, bytes) ==
  IF bytes = <<>> THEN pending
  ELSE LET b == Head(bytes) IN
    IF pending = <<>>
      THEN IF IsLeadByte(b) THEN DecodePending(<<b>>, Tail(bytes))
           ELSE DecodePending(<<>>, Tail(bytes))
      ELSE IF IsContinuationByte(b) THEN DecodePending(<<>>, Tail(bytes))
           ELSE DecodePending(<<>>, bytes)

\* ENCODER.encode(text)
RECURSIVE Encode(_)
Encode(text) ==
  IF text = <<>> THEN <<>>
  ELSE LET c == Head(text) IN
    (IF c = "U+00E9" THEN <<"C3", "A9">>
     ELSE IF c = REPL THEN <<"EF", "BF", "BD">>
     ELSE <<c>>) \o Encode(Tail(text))

\* String.prototype.indexOf("\n\n"): the 0-based index of the first
\* occurrence, or -1.
IndexOfBoundary(s) ==
  LET hits == { k \in 1 .. Len(s) - 1 : s[k] = NL /\ s[k + 1] = NL } IN
  IF hits = {} THEN -1
  ELSE (CHOOSE k \in hits : \A j \in hits : k <= j) - 1

\* String.prototype.slice(from, to) and slice(from), 0-based, to exclusive.
Slice(s, from, to) == IF from >= to THEN <<>> ELSE SubSeq(s, from + 1, to)
SliceFrom(s, from) == IF from >= Len(s) THEN <<>> ELSE SubSeq(s, from + 1, Len(s))

\* String.prototype.trim()
RECURSIVE TrimStart(_)
TrimStart(s) ==
  IF s # <<>> /\ IsSpace(Head(s)) THEN TrimStart(Tail(s)) ELSE s

RECURSIVE TrimEnd(_)
TrimEnd(s) ==
  IF s # <<>> /\ IsSpace(s[Len(s)]) THEN TrimEnd(SubSeq(s, 1, Len(s) - 1)) ELSE s

Trim(s) == TrimEnd(TrimStart(s))

\* String.prototype.startsWith(prefix)
StartsWith(s, prefix) ==
  Len(s) >= Len(prefix) /\ SubSeq(s, 1, Len(prefix)) = prefix

\* JSON.parse over the texts of the model: null, a number, an array of at
\* most one value, an object of at most one member; white space is allowed
\* around every token. Any other text is a SyntaxError.
MemberLetters == {"x", "U+00E9", "S", "L", "M", "N", "O", "R", "P", "Q"}

JsNull == [type |-> "null", member |-> "none"]
SyntaxError == [type |-> "SyntaxError", member |-> "none"]

RECURSIVE JsonParse(_)
JsonParse(s) ==
  LET t == Trim(s) IN
  IF t = <<"n", "u", "l", "l">> THEN JsNull
  ELSE IF t # <<>> /\ \A k \in 1 .. Len(t) : t[k] = "1"
    THEN [type |-> "number", member |-> "none"]
  ELSE IF Len(t) >= 2 /\ t[1] = "{" /\ t[Len(t)] = "}"
    THEN LET inner == Trim(SubSeq(t, 2, Len(t) - 1)) IN
         IF inner = <<>> THEN [type |-> "object", member |-> "none"]
         ELSE IF Len(inner) = 1 /\ inner[1] \in MemberLetters
           THEN [type |-> "object", member |-> inner[1]]
         ELSE SyntaxError
  ELSE IF Len(t) >= 2 /\ t[1] = "[" /\ t[Len(t)] = "]"
    THEN LET inner == Trim(SubSeq(t, 2, Len(t) - 1)) IN
         IF inner = <<>> THEN [type |-> "array", member |-> "none"]
         ELSE IF JsonParse(inner).type = "SyntaxError" THEN SyntaxError
         ELSE [type |-> "array", member |-> "none"]
  ELSE SyntaxError

\* typeof value
TypeOf(v) == IF v.type \in {"null", "object", "array"} THEN "object" ELSE v.type

\* parsed?.choices, as the sequence of its elements' finish_reason; the empty
\* sequence when there is no such member.
ChoicesOf(v) ==
  IF v.member \in {"S", "P"} THEN <<"stop">>
  ELSE IF v.member \in {"L", "Q"} THEN <<"length">>
  ELSE IF v.member = "M" THEN <<"length", "stop">>
  ELSE IF v.member = "N" THEN <<"stop", "length">>
  ELSE IF v.member = "O" THEN <<"null", "stop">>
  ELSE <<>>

\* parsed.hasOwnProperty("error") and parsed.error.message
HasOwnError(v) == v.member \in {"R", "P", "Q"}
UpstreamMessage == "upstream error message"


(***************************************************************************)
(* Part 3: the output ReadableStream and its controller.                   *)
(***************************************************************************)
VARIABLES
  events,          \* the events the source carries, in order
  mode,            \* options.mode
  src,             \* the bytes of the source not yet delivered
  aligned,         \* every chunk so far held exactly one whole event
  decoder,         \* DECODER: the bytes of a character begun and not ended
  buffer,          \* the local variable buffer
  run,             \* start(): "iterating", "returned", "threw" or "ended"
  state,           \* the output stream: "readable", "closed" or "errored"
  queue,           \* the frames enqueued and not yet read
  closeRequested,  \* close() was called while frames were queued
  pendingReads,    \* read() calls of the consumer waiting for a frame
  storedError,     \* the error of an errored stream, or "none"
  log,             \* what start() did to the controller and onDone, and the
                   \* consumer's cancel, in order
  consumed,        \* the frames the consumer received
  cbSrc,           \* CallbackHandler: the bytes of its input not yet delivered
  cbLog,           \* CallbackHandler: its calls of onParse and its yields
  cbPrivate,       \* a decoder of the handler's own, for comparison
  cbAloneLog       \* what the handler does with the decoder of its own

svars == <<events, mode, src, aligned, decoder, buffer, run, state, queue,
           closeRequested, pendingReads, storedError, log, consumed>>

cvars == <<cbSrc, cbLog, cbPrivate, cbAloneLog>>

vars == <<bvars, svars, cvars>>

\* new ReadableStream(underlyingSource) with no queuing strategy: a high
\* water mark of 1 and every chunk of size 1.
HighWaterMark == 1

MaxTokensMessage == "Maximum number of tokens reached."

LogEntry(op, data) == [op |-> op, data |-> data]

\* The state start() works on, as one record.
Current ==
  [buffer |-> buffer, run |-> run, state |-> state, queue |-> queue,
   closeRequested |-> closeRequested, pendingReads |-> pendingReads,
   storedError |-> storedError, log |-> log, consumed |-> consumed]

\* controller.desiredSize is null on an errored stream, 0 on a closed one
\* and highWaterMark - (frames queued) otherwise; `if (desiredSize)` takes
\* null and 0 for false.
DesiredSizeIsTruthy(r) ==
  r.state = "readable" /\ HighWaterMark - Len(r.queue) # 0

CanCloseOrEnqueue(r) == r.state = "readable" /\ ~r.closeRequested

\* controller.error(e), also what the rejection of start() does: nothing on
\* a stream that is not readable.
ControllerError(r, message) ==
  IF r.state # "readable" THEN r
  ELSE [r EXCEPT !.state = "errored", !.storedError = message,
                 !.queue = <<>>, !.pendingReads = 0,
                 !.log = Append(@, LogEntry("error", <<message>>))]

\* An exception leaving start(): the run is over and the stream is errored.
Throw(r, message) == ControllerError([r EXCEPT !.run = "threw"], message)

\* controller.close(), called when it may be.
ControllerClose(r) ==
  LET r1 == [r EXCEPT !.closeRequested = TRUE,
                      !.log = Append(@, LogEntry("close", <<>>))] IN
  IF r.queue = <<>>
    THEN [r1 EXCEPT !.state = "closed", !.pendingReads = 0]
    ELSE r1

\* controller.enqueue(frame), called when it may be: a waiting read() takes
\* the frame, otherwise it is queued.
ControllerEnqueue(r, frame) ==
  LET r1 == [r EXCEPT !.log = Append(@, LogEntry("enqueue", frame))] IN
  IF r.pendingReads > 0
    THEN [r1 EXCEPT !.pendingReads = @ - 1, !.consumed = Append(@, frame)]
    ELSE [r1 EXCEPT !.queue = Append(@, frame)]

(***************************************************************************)
(* Part 4: EventStream.                                                    *)
(***************************************************************************)
\* closeController(controller, onDone), followed by `return`.
closeController(r) ==
  IF DesiredSizeIsTruthy(r)
    THEN IF CanCloseOrEnqueue(r)
           THEN [ControllerClose(r) EXCEPT !.log = Append(@, LogEntry("onDone", <<>>)),
                                           !.run = "returned"]
           ELSE Throw(r, "TypeError")
    ELSE [r EXCEPT !.log = Append(@, LogEntry("onDone", <<>>)), !.run = "returned"]

SentinelLine == <<"d", "a", "t", "a", ":", " ", "[", "D", "O", "N", "E", "]">>
SentinelText == <<"[", "D", "O", "N", "E", "]">>

\* bufferIsDone(buffer); and the same test with === in place of startsWith.
bufferIsDoneExact(b) == b = SentinelLine \/ b = SentinelText
bufferIsDone(b) == StartsWith(b, SentinelLine) \/ b = SentinelText

\* The same test made of choices[0] alone.
ChoicesVerdictFirst(choices, m) ==
  IF choices = <<>> THEN "none"
  ELSE IF Head(choices) = "stop" THEN "stop"
  ELSE IF m = "tokens" /\ Head(choices) = "length" THEN "length"
  ELSE "none"

\* for (const choice of choices): "stop" when the loop reaches a choice with
\* finish_reason "stop", "length" when it reaches one with "length" in mode
\* "tokens", "none" when it ends.
RECURSIVE ChoicesVerdict(_, _)
ChoicesVerdict(choices, m) ==
  IF choices = <<>> THEN "none"
  ELSE IF Head(choices) = "stop" THEN "stop"
  ELSE IF m = "tokens" /\ Head(choices) = "length" THEN "length"
  ELSE ChoicesVerdict(Tail(choices), m)

\* JSON.parse(jsonString) inside try/catch: parsed stays null on an error.
ParsedOf(jsonString) ==
  LET v == JsonParse(jsonString) IN
  IF v.type = "SyntaxError" THEN JsNull ELSE v

\* The same lines with an enqueue that a stream no longer readable accepts.
EmitFrameUnguarded(r, parsed, jsonString) ==
  IF parsed.type = "null" THEN Throw(r, "TypeError")
  ELSE LET r1 == IF HasOwnError(parsed)
                   THEN ControllerError(r, UpstreamMessage)
                   ELSE r IN
       ControllerEnqueue(r1, Encode(jsonString))

\* Lines 117-123: the error member, then the enqueue of the frame.
EmitFrame(r, parsed, jsonString) ==
  IF parsed.type = "null" THEN Throw(r, "TypeError")
  ELSE LET r1 == IF HasOwnError(parsed)
                   THEN ControllerError(r, UpstreamMessage)
                   ELSE r IN
       IF CanCloseOrEnqueue(r1)
         THEN ControllerEnqueue(r1, Encode(jsonString))
         ELSE Throw(r1, "TypeError")

\* The text between the field prefix and the boundary.
CandidateAt(b, boundary) == Trim(Slice(b, 5, boundary))

\* The same loop with `if` in place of `while`: one candidate is taken from
\* the buffer for each chunk.
ScanOnce(r, m) ==
  LET boundary == IndexOfBoundary(r.buffer) IN
  IF boundary = -1
    THEN IF bufferIsDone(r.buffer) THEN closeController(r) ELSE r
    ELSE
      LET jsonString == CandidateAt(r.buffer, boundary)
          r1 == [r EXCEPT !.buffer = SliceFrom(r.buffer, boundary + 2)]
      IN
      IF bufferIsDone(r1.buffer) THEN closeController(r1)
      ELSE
        LET parsed == ParsedOf(jsonString) IN
        IF TypeOf(parsed) = "object"
          THEN LET verdict == ChoicesVerdict(ChoicesOf(parsed), m) IN
               IF verdict = "stop" THEN closeController(r1)
               ELSE IF verdict = "length" THEN Throw(r1, MaxTokensMessage)
               ELSE EmitFrame(r1, parsed, jsonString)
          ELSE r1

\* while (true) { ... }: the record when the loop is left, by break (run is
\* still "iterating"), by return or by an exception.
RECURSIVE ScanLoop(_, _)
ScanLoop(r, m) ==
  LET boundary == IndexOfBoundary(r.buffer) IN
  IF boundary = -1
    THEN IF bufferIsDone(r.buffer) THEN closeController(r) ELSE r
    ELSE
      LET jsonString == CandidateAt(r.buffer, boundary)
          r1 == [r EXCEPT !.buffer = SliceFrom(r.buffer, boundary + 2)]
      IN
      IF bufferIsDone(r1.buffer) THEN closeController(r1)
      ELSE
        LET parsed == ParsedOf(jsonString) IN
        IF TypeOf(parsed) = "object"
          THEN LET verdict == ChoicesVerdict(ChoicesOf(parsed), m) IN
               IF verdict = "stop" THEN closeController(r1)
               ELSE IF verdict = "length" THEN Throw(r1, MaxTokensMessage)
               ELSE LET r2 == EmitFrame(r1, parsed, jsonString) IN
                    IF r2.run = "iterating" THEN ScanLoop(r2, m) ELSE r2
          ELSE ScanLoop(r1, m)

\* The body of the for-await loop for one chunk, given its decoded text.
ForBody(r, text, m) ==
  LET r1 == [r EXCEPT !.buffer = @ \o text] IN
  IF bufferIsDone(r1.buffer) THEN closeController(r1) ELSE ScanLoop(r1, m)

\* The events a source may carry: the text after the field prefix, framed as
\* "data: " text "\n\n", or a bare text with no prefix and no boundary.
Framed(text) == [framed |-> TRUE, text |-> text]
DataX == Framed(<<"{", "x", "}">>)
DataU == Framed(<<"{", "U+00E9", "}">>)
StopEvent == Framed(<<"{", "S", "}">>)
LengthEvent == Framed(<<"{", "L", "}">>)
ErrorEvent == Framed(<<"{", "R", "}">>)
SentinelEvent == Framed(SentinelText)
TruncatedEvent == Framed(<<"{", "x">>)
EmptyEvent == Framed(<<>>)
NullEvent == Framed(<<"n", "u", "l", "l">>)
NumberEvent == Framed(<<"1">>)
BareSentinel == [framed |-> FALSE, text |-> SentinelText]
SplitEvent == Framed(<<"{", NL, NL, "x", "}">>)
ErrorStopEvent == Framed(<<"{", "P", "}">>)
ErrorLengthEvent == Framed(<<"{", "Q", "}">>)
LengthStopEvent == Framed(<<"{", "M", "}">>)
StopLengthEvent == Framed(<<"{", "N", "}">>)
NullStopEvent == Framed(<<"{", "O", "}">>)

\* The well-formed events, and the events of a source that may be malformed.
WellFormed == {DataX, DataU, StopEvent, LengthEvent, SentinelEvent}

Malformed ==
  {DataX, SentinelEvent, TruncatedEvent, EmptyEvent, NullEvent, NumberEvent,
   ErrorEvent, BareSentinel}

\* A source with an event whose JSON text holds a blank line.
Split == {DataX, SplitEvent, NumberEvent, SentinelEvent}

\* A source with events that carry an error member.
WithError ==
  {DataX, ErrorEvent, ErrorStopEvent, ErrorLengthEvent, SentinelEvent}

\* A source with events of several choices.
WithChoices ==
  {DataX, StopEvent, LengthStopEvent, StopLengthEvent, NullStopEvent}

FieldPrefix == <<"d", "a", "t", "a", ":", " ">>

\* The bytes of one event, and of a sequence of events, on the wire.
WireOf(e) ==
  IF e.framed THEN Encode(FieldPrefix \o e.text \o <<NL, NL>>) ELSE Encode(e.text)

RECURSIVE WireOfAll(_)
WireOfAll(es) == IF es = <<>> THEN <<>> ELSE WireOf(Head(es)) \o WireOfAll(Tail(es))

Payloads(catalog) == UNION { [1 .. n -> catalog] : n \in 1 .. MaxEvents }

\* type StreamMode
Modes == {"tokens", "raw"}

\* The bytes delivered so far.
Delivered == Len(WireOfAll(events)) - Len(src)

SInit(catalog) ==
  /\ events \in Payloads(catalog)
  /\ mode \in Modes
  /\ src = WireOfAll(events)
  /\ aligned = TRUE
  /\ decoder = <<>>
  /\ buffer = <<>>
  /\ run = "iterating"
  /\ state = "readable"
  /\ queue = <<>>
  /\ closeRequested = FALSE
  /\ pendingReads = 0
  /\ storedError = "none"
  /\ log = <<>>
  /\ consumed = <<>>

\* The offsets at which an event of the source ends.
EventEnds == { Len(WireOfAll(SubSeq(events, 1, n))) : n \in 1 .. Len(events) }

Install(r) ==
  /\ buffer' = r.buffer
  /\ run' = r.run
  /\ state' = r.state
  /\ queue' = r.queue
  /\ closeRequested' = r.closeRequested
  /\ pendingReads' = r.pendingReads
  /\ storedError' = r.storedError
  /\ log' = r.log
  /\ consumed' = r.consumed

\* One turn of the for-await loop: the source yields its next chunk, any
\* number of the bytes that are left.
Chunk ==
  /\ run = "iterating"
  /\ src # <<>>
  /\ \E n \in 1 .. Len(src) :
       LET chunk == SubSeq(src, 1, n) IN
       /\ src' = SubSeq(src, n + 1, Len(src))
       /\ aligned' = (aligned /\ Delivered + n \in EventEnds
                        /\ \A k \in 1 .. n - 1 : Delivered + k \notin EventEnds)
       /\ decoder' = DecodePending(decoder, chunk)
       /\ Install(ForBody(Current, DecodeText(decoder, chunk), mode))
  /\ UNCHANGED <<events, mode>>

\* The source is exhausted: the for-await loop ends and start() returns.
SourceEnd ==
  /\ run = "iterating"
  /\ src = <<>>
  /\ run' = "ended"
  /\ UNCHANGED <<events, mode, src, aligned, decoder, buffer, state, queue,
                 closeRequested, pendingReads, storedError, log, consumed>>

\* The consumer calls read(), one call at a time: it takes the first queued
\* frame (and a stream whose close was requested closes when the last one is
\* taken), or waits for the next frame.
Read ==
  /\ \/ /\ queue # <<>>
        /\ queue' = Tail(queue)
        /\ consumed' = Append(consumed, Head(queue))
        /\ state' = IF closeRequested /\ Tail(queue) = <<>> THEN "closed" ELSE state
        /\ UNCHANGED pendingReads
     \/ /\ queue = <<>>
        /\ state = "readable"
        /\ pendingReads = 0
        /\ pendingReads' = pendingReads + 1
        /\ UNCHANGED <<queue, consumed, state>>
  /\ UNCHANGED <<events, mode, src, aligned, decoder, buffer, run,
                 closeRequested, storedError, log>>

\* The consumer cancels the stream (reader.cancel()): a readable stream is
\* closed and its queue dropped. The underlying source has a start() and no
\* cancel(), so nothing is told to the loop of start().
Cancel ==
  /\ state = "readable"
  /\ state' = "closed"
  /\ queue' = <<>>
  /\ pendingReads' = 0
  /\ log' = Append(log, LogEntry("cancel", <<>>))
  /\ UNCHANGED <<events, mode, src, aligned, decoder, buffer, run,
                 closeRequested, storedError, consumed>>

SNext ==
  \/ Chunk /\ UNCHANGED <<bvars, cvars>>
  \/ SourceEnd /\ UNCHANGED <<bvars, cvars>>
  \/ Read /\ UNCHANGED <<bvars, cvars>>

\* The part of the state the other component does not touch.
BIdle ==
  /\ maxRetries = 0 /\ initialDelay = 0 /\ delay = 0 /\ i = 0
  /\ bpc = "idle" /\ fetched = <<>> /\ trace = <<>>
  /\ thrown = "none" /\ returned = "none"

SIdle ==
  /\ events = <<>> /\ mode = "tokens" /\ src = <<>> /\ aligned = TRUE
  /\ decoder = <<>> /\ buffer = <<>> /\ run = "idle" /\ state = "readable"
  /\ queue = <<>> /\ closeRequested = FALSE /\ pendingReads = 0
  /\ storedError = "none" /\ log = <<>> /\ consumed = <<>>

CIdle ==
  /\ cbSrc = <<>> /\ cbLog = <<>> /\ cbPrivate = <<>> /\ cbAloneLog = <<>>

BNext ==
  \/ LoopTest /\ UNCHANGED <<svars, cvars>>
  \/ Fetch /\ UNCHANGED <<svars, cvars>>
  \/ Hook /\ UNCHANGED <<svars, cvars>>
  \/ Sleep /\ UNCHANGED <<svars, cvars>>

\* EventStream over a source of well-formed events.
Init == SInit(WellFormed) /\ BIdle /\ CIdle
Spec == Init /\ [][SNext]_vars

\* EventStream over a source that may carry malformed events.
InitMalformed == SInit(Malformed) /\ BIdle /\ CIdle
SpecMalformed == InitMalformed /\ [][SNext]_vars

\* EventStream over well-formed events with a consumer that may cancel.
CancelNext ==
  \/ Chunk /\ UNCHANGED <<bvars, cvars>>
  \/ SourceEnd /\ UNCHANGED <<bvars, cvars>>
  \/ Read /\ UNCHANGED <<bvars, cvars>>
  \/ Cancel /\ UNCHANGED <<bvars, cvars>>

SpecCancel == Init /\ [][CancelNext]_vars

\* EventStream over a source with an event that holds a blank line.
InitSplit == SInit(Split) /\ BIdle /\ CIdle
SpecSplit == InitSplit /\ [][SNext]_vars

\* EventStream over a source with error events.
InitError == SInit(WithError) /\ BIdle /\ CIdle
SpecError == InitError /\ [][SNext]_vars

\* EventStream over a source with events of several choices.
InitChoices == SInit(WithChoices) /\ BIdle /\ CIdle
SpecChoices == InitChoices /\ [][SNext]_vars

\* fetchWithBackoff.
InitBackoff == BInit /\ SIdle /\ CIdle
SpecBackoff == InitBackoff /\ [][BNext]_vars

(***************************************************************************)
(* Part 5: CallbackHandler.                                                *)
(***************************************************************************)
\* handler(chunk) with an onParse given: what it does, in order, when
\* DECODER holds the pending bytes dec.
CallbackHandler(dec, chunk) ==
  LET decoded == DecodeText(dec, chunk) IN
  <<LogEntry("onParse", decoded)>>
    \o (IF decoded # <<>> THEN <<LogEntry("yield", Encode(decoded))>> ELSE <<>>)

\* The characters of the text that reaches the handler.
HandlerChars == {"h", "U+00E9"}
HandlerTexts == UNION { [1 .. n -> HandlerChars] : n \in 1 .. MaxChars }

CInit(texts) ==
  /\ cbSrc \in { Encode(t) : t \in texts }
  /\ cbLog = <<>>
  /\ cbPrivate = <<>>
  /\ cbAloneLog = <<>>

\* The pipeline hands the handler its next chunk, any number of the bytes
\* that are left. DECODER is the decoder EventStream uses too; cbPrivate and
\* cbAloneLog follow the same handler with a decoder no one else uses.
HandlerChunk ==
  /\ cbSrc # <<>>
  /\ \E n \in 1 .. Len(cbSrc) :
       LET chunk == SubSeq(cbSrc, 1, n) IN
       /\ cbSrc' = SubSeq(cbSrc, n + 1, Len(cbSrc))
       /\ cbLog' = cbLog \o CallbackHandler(decoder, chunk)
       /\ decoder' = DecodePending(decoder, chunk)
       /\ cbAloneLog' = cbAloneLog \o CallbackHandler(cbPrivate, chunk)
       /\ cbPrivate' = DecodePending(cbPrivate, chunk)
  /\ UNCHANGED <<events, mode, src, aligned, buffer, run, state, queue,
                 closeRequested, pendingReads, storedError, log, consumed>>

\* One CallbackHandler.
HandlerNext == HandlerChunk /\ UNCHANGED bvars
InitHandler == CInit(HandlerTexts) /\ SIdle /\ BIdle
SpecHandler == InitHandler /\ [][HandlerNext]_vars

\* An EventStream and a CallbackHandler at work in the same module, their
\* chunks interleaved: both use the DECODER imported on line 1.
SharedEvents == {DataU}
SharedTexts == { <<c>> : c \in HandlerChars }

SharedNext ==
  \/ Chunk /\ UNCHANGED <<bvars, cvars>>
  \/ SourceEnd /\ UNCHANGED <<bvars, cvars>>
  \/ HandlerChunk /\ UNCHANGED bvars

InitShared == SInit(SharedEvents) /\ CInit(SharedTexts) /\ BIdle
SpecShared == InitShared /\ [][SharedNext]_vars

(***************************************************************************)
(* Claims about fetchWithBackoff.                                          *)
(***************************************************************************)
RECURSIVE Pow2(_)
Pow2(k) == IF k <= 0 THEN 1 ELSE 2 * Pow2(k - 1)

CallsOf(kind) == SelectSeq(trace, LAMBDA e : e.call = kind)

PermanentlyRateLimited ==
  /\ fetched # <<>>
  /\ \A k \in 1 .. Len(fetched) : IsRateLimitedResponse(fetched[k])

\* C1: with maxRetries = N >= 0 and every attempt answered by a rate-limited
\* response, the call fails after exactly N+1 calls of fetch and exactly N
\* calls of onRateLimitReached; while it has not failed, fewer were made.
C1_AttemptsAndHooks ==
  (maxRetries >= 0 /\ PermanentlyRateLimited) =>
    /\ bpc \in {"thrown", "loop", "fetch", "hook", "sleep"}
    /\ Len(fetched) <= maxRetries + 1
    /\ Len(CallsOf("hook")) <= maxRetries
    /\ bpc = "thrown" =>
         /\ Len(fetched) = maxRetries + 1
         /\ Len(CallsOf("fetch")) = maxRetries + 1
         /\ Len(CallsOf("hook")) = maxRetries

C1_Witness ==
  /\ maxRetries = 2
  /\ PermanentlyRateLimited
  /\ bpc = "thrown"
  /\ Len(fetched) = 3
  /\ Len(CallsOf("hook")) = 2

\* C2: the k-th retry calls the hook with {retries: k, delay: d * 2^k}, right
\* after the rate-limited fetch; the sleep that follows lasts d * 2^k and
\* comes right after the hook; the next fetch comes right after the sleep. So
\* the sleeps last d, 2d, 4d, ... and there are N of them when the call has
\* failed on rate limits alone.
C2_DelaySequence ==
  /\ \A p \in 1 .. Len(trace) :
       /\ trace[p].call = "hook" =>
            /\ p > 1 /\ trace[p - 1].call = "fetch"
            /\ trace[p].retries = Len(SelectSeq(SubSeq(trace, 1, p - 1),
                                                LAMBDA e : e.call = "hook"))
            /\ trace[p].delay = initialDelay * Pow2(trace[p].retries)
       /\ trace[p].call = "sleep" =>
            /\ p > 1 /\ trace[p - 1].call = "hook"
            /\ trace[p].delay = trace[p - 1].delay
       /\ trace[p].call = "fetch" =>
            \/ p = 1
            \/ trace[p - 1].call = "sleep"
  /\ \A k \in 1 .. Len(CallsOf("sleep")) :
       CallsOf("sleep")[k].delay = initialDelay * Pow2(k - 1)
  /\ (bpc = "thrown" /\ maxRetries >= 0 /\ PermanentlyRateLimited) =>
       Len(CallsOf("sleep")) = maxRetries

C2_Witness ==
  /\ initialDelay = 3
  /\ Len(CallsOf("sleep")) = 3
  /\ CallsOf("sleep")[3].delay = 12
  /\ CallsOf("hook")[3] = [call |-> "hook", retries |-> 2, delay |-> 12]
  /\ trace[Len(trace)].call = "fetch"

\* C3: a rate-limited response on the attempt whose index has reached
\* maxRetries makes the call fail with the error "Max retries reached.".
C3_MaxRetriesError ==
  ( /\ bpc = "thrown"
    /\ maxRetries >= 0
    /\ Len(fetched) = maxRetries + 1
    /\ IsRateLimitedResponse(fetched[Len(fetched)]) )
  => thrown = MaxRetriesMessage

\* C4: fetch is called again only after a rate-limited non-ok response; an
\* error thrown by fetch itself, whatever its message, is rethrown after that
\* one attempt with no hook call and no sleep; a non-ok response that is not
\* rate-limited is returned after that one attempt.
C4_OnlyRateLimitRetried ==
  /\ \A k \in 1 .. Len(fetched) - 1 : IsRateLimitedResponse(fetched[k])
  /\ \A k \in 1 .. Len(fetched) :
       /\ fetched[k].kind = "throws" =>
            /\ k = Len(fetched)
            /\ bpc = "thrown"
            /\ thrown = fetched[k].message
            /\ trace[Len(trace)].call = "fetch"
       /\ (fetched[k].kind = "response" /\ ~fetched[k].ok
             /\ ~IsRateLimitBody(fetched[k].body)) =>
            /\ k = Len(fetched)
            /\ bpc = "returned"
            /\ returned = fetched[k]

(***************************************************************************)
(* Claims about EventStream.                                               *)
(***************************************************************************)
\* The frames enqueued so far, and the calls of onDone so far.
Frames == [k \in 1 .. Len(SelectSeq(log, LAMBDA e : e.op = "enqueue")) |->
             SelectSeq(log, LAMBDA e : e.op = "enqueue")[k].data]
OnDoneCount == Len(SelectSeq(log, LAMBDA e : e.op = "onDone"))

FramesOf(r) == [k \in 1 .. Len(SelectSeq(r.log, LAMBDA e : e.op = "enqueue")) |->
                  SelectSeq(r.log, LAMBDA e : e.op = "enqueue")[k].data]

\* start() on a fresh stream that nobody reads, fed the given chunks.
Fresh ==
  [buffer |-> <<>>, run |-> "iterating", state |-> "readable", queue |-> <<>>,
   closeRequested |-> FALSE, pendingReads |-> 0, storedError |-> "none",
   log |-> <<>>, consumed |-> <<>>]

RECURSIVE RunChunks(_, _, _, _)
RunChunks(r, dec, chunks, m) ==
  IF chunks = <<>> \/ r.run # "iterating" THEN r
  ELSE RunChunks(ForBody(r, DecodeText(dec, Head(chunks)), m),
                 DecodePending(dec, Head(chunks)), Tail(chunks), m)

\* The same source delivered one event per chunk.
OneEventPerChunk(es, m) ==
  RunChunks(Fresh, <<>>, [k \in 1 .. Len(es) |-> WireOf(es[k])], m)

IsData(e) == e \in {DataX, DataU}
AllData(es) == \A k \in 1 .. Len(es) : IsData(es[k])
FramesOfData(es) == [k \in 1 .. Len(es) |-> Encode(es[k].text)]

\* The offset at which event n ends, and the events delivered whole.
EndOf(n) == Len(WireOfAll(SubSeq(events, 1, n)))
WholeEvents == Cardinality({ n \in 1 .. Len(events) : EndOf(n) <= Delivered })

\* C5: whatever the chunking of a source of well-formed events, the frames
\* enqueued when the run is over are those enqueued when the same source is
\* delivered one event per chunk.
C5_ChunkingInvariant ==
  run # "iterating" => Frames = FramesOf(OneEventPerChunk(events, mode))

\* C6: data events E followed by the sentinel event, and E followed by an
\* event with finish_reason "stop", both end with onDone and with the same
\* frames before it, under every chunking: the frames of this run are those
\* of the run of E with the other ending, one event per chunk.
OtherEnding(e) == IF e = SentinelEvent THEN StopEvent ELSE SentinelEvent

C6_SentinelAndStopAgree ==
  ( /\ events[Len(events)] \in {SentinelEvent, StopEvent}
    /\ AllData(SubSeq(events, 1, Len(events) - 1))
    /\ src = <<>> )
  => /\ run = "returned"
     /\ log[Len(log)].op = "onDone"
     /\ Frames = FramesOf(OneEventPerChunk(
                   [events EXCEPT ![Len(events)] = OtherEnding(@)], mode))

\* C7: in mode "tokens", once an event with finish_reason "length" that
\* follows data events only has been delivered whole, the stream is errored
\* with the MAX_TOKENS error and no frame was enqueued for that event or a
\* later one.
C7_LengthIsTerminalError ==
  \A j \in 1 .. Len(events) :
    ( /\ mode = "tokens"
      /\ events[j] = LengthEvent
      /\ AllData(SubSeq(events, 1, j - 1))
      /\ EndOf(j) <= Delivered )
    => /\ state = "errored"
       /\ storedError = MaxTokensMessage
       /\ Frames = FramesOfData(SubSeq(events, 1, j - 1))

\* C8: data events delivered one per chunk and followed by a chunk with the
\* sentinel event: one frame per data event delivered, in order, each the
\* event's JSON text; onDone is called once, after the last frame, when the
\* sentinel chunk is delivered. In no run is onDone called twice.
C8Case ==
  /\ events[Len(events)] = SentinelEvent
  /\ AllData(SubSeq(events, 1, Len(events) - 1))
  /\ aligned

C8_OneFramePerEventThenDone ==
  /\ OnDoneCount <= 1
  /\ C8Case =>
       IF WholeEvents < Len(events)
         THEN /\ Frames = FramesOfData(SubSeq(events, 1, WholeEvents))
              /\ OnDoneCount = 0
              /\ run = "iterating"
         ELSE /\ Frames = FramesOfData(SubSeq(events, 1, Len(events) - 1))
              /\ OnDoneCount = 1
              /\ log[Len(log)].op = "onDone"
              /\ run = "returned"

C8_Witness ==
  /\ C8Case
  /\ Len(events) = 3
  /\ events[1] # events[2]
  /\ run = "returned"
  /\ Len(Frames) = 2
  /\ OnDoneCount = 1

\* C9: once termination was detected (onDone was called), the output stream
\* is closed, or closes when the frames still queued have been read.
C9_ClosedOnTermination ==
  OnDoneCount > 0 => (state = "closed" \/ closeRequested)

\* C10: a candidate that is not valid JSON (a truncated object, an empty
\* candidate, the literal null) following data events only, once delivered
\* whole, leaves the stream not errored, start() running or returned, and no
\* frame enqueued for it.
IsInvalidCandidate(e) == e \in {TruncatedEvent, EmptyEvent, NullEvent}

C10_InvalidCandidateIsSkipped ==
  \A j \in 1 .. Len(events) :
    ( /\ IsInvalidCandidate(events[j])
      /\ AllData(SubSeq(events, 1, j - 1))
      /\ EndOf(j) <= Delivered )
    => /\ state # "errored"
       /\ run # "threw"
       /\ \A k \in 1 .. Len(Frames) : Frames[k] # Encode(events[j].text)


\* C11: an event whose JSON text holds a blank line (so that the candidate
\* taken at the first boundary is not valid JSON), following data events
\* only: once the bytes of the whole event have been delivered, its complete
\* JSON text has been enqueued as one frame, after the frames of the data.
C11_SplitPayloadIsEmitted ==
  \A j \in 1 .. Len(events) :
    ( /\ events[j] = SplitEvent
      /\ AllData(SubSeq(events, 1, j - 1))
      /\ EndOf(j) <= Delivered )
    => /\ Len(Frames) >= j
       /\ Frames[j] = Encode(Trim(SplitEvent.text))


\* C12: an event with an error member that follows data events only and is
\* not followed by the sentinel event, once delivered whole (it is then
\* parsed): the stream is errored with the upstream message, whatever the
\* finish_reason of its choices, and no frame was enqueued for it.
CarriesError(e) == e \in {ErrorEvent, ErrorStopEvent, ErrorLengthEvent}

C12_ErrorFieldErrorsStream ==
  \A j \in 1 .. Len(events) :
    ( /\ CarriesError(events[j])
      /\ AllData(SubSeq(events, 1, j - 1))
      /\ j < Len(events) => events[j + 1] # SentinelEvent
      /\ EndOf(j) <= Delivered )
    => /\ state = "errored"
       /\ storedError = UpstreamMessage
       /\ Frames = FramesOfData(SubSeq(events, 1, j - 1))


\* C13: in every run at most one terminal signal fires: onDone is called
\* (DONE) or the stream is put into the errored state (the upstream error,
\* MAX_TOKENS), once in all. When it has fired it is the last thing start()
\* did, start() is over, and from then on start() does nothing more to the
\* controller or to onDone and takes no further chunk from the source.
IsTerminal(e) == e.op \in {"onDone", "error"}
Terminals == SelectSeq(log, IsTerminal)

C13_OneTerminalSignal ==
  /\ [](/\ Len(Terminals) <= 1
        /\ Len(Terminals) = 1 =>
             /\ IsTerminal(log[Len(log)])
             /\ run \in {"returned", "threw"})
  /\ [][Len(Terminals) = 1 =>
          /\ log' = log
          /\ src' = src
          /\ run' = run
          /\ storedError' = storedError
          /\ state' # state => (state = "readable" /\ state' = "closed"
                                 /\ closeRequested)]_vars

C13_Witness ==
  /\ Len(Terminals) = 1
  /\ log[Len(log)] = LogEntry("error", <<UpstreamMessage>>)
  /\ Len(Frames) = 1
  /\ src # <<>>
  /\ run = "threw"


\* C14: once the consumer has cancelled the stream, start() takes no further
\* chunk from the source; and when start() is over (returned or threw) after
\* a cancel, onDone was called exactly once.
Cancelled == \E k \in 1 .. Len(log) : log[k].op = "cancel"

C14_CancelStopsTheFramer ==
  /\ [][Cancelled => src' = src]_vars
  /\ [](Cancelled /\ run \in {"returned", "threw"} => OnDoneCount = 1)


\* C15: when the source has ended with no sentinel and no "stop" event met
\* (the for-await loop ran to its end), the output stream is closed and
\* onDone was called once.
C15_ClosedAtSourceEnd ==
  run = "ended" => (state = "closed" /\ OnDoneCount = 1)


\* C16: CallbackHandler yields the re-encoded text of a chunk exactly when
\* the decoded text is not empty, and calls onParse once for each yield: the
\* calls of onParse are as many as the yields.
OnParseCalls(l) == SelectSeq(l, LAMBDA e : e.op = "onParse")
Yields(l) == SelectSeq(l, LAMBDA e : e.op = "yield")

C16_OnParsePerYield ==
  /\ Len(OnParseCalls(cbLog)) = Len(Yields(cbLog))
  /\ \A k \in 1 .. Len(Yields(cbLog)) : Yields(cbLog)[k].data # <<>>


\* C19: a CallbackHandler whose chunks are interleaved with the chunks of an
\* EventStream yields, at every point, what it yields for the same chunks
\* with a decoder of its own.
C19_HandlerYieldsAsAlone ==
  Yields(cbLog) = Yields(cbAloneLog)


\* C17: a source whose sentinel event comes right after an event that is
\* not valid JSON (data events only before it): when start() is over, under
\* any chunking, it has returned, onDone was called once and the stream is
\* not errored.
C17_DoneAfterMalformedEvent ==
  \A j \in 2 .. Len(events) :
    ( /\ events[j] = SentinelEvent
      /\ IsInvalidCandidate(events[j - 1])
      /\ AllData(SubSeq(events, 1, j - 2))
      /\ run # "iterating" )
    => /\ OnDoneCount = 1
       /\ run = "returned"
       /\ state # "errored"


\* C18 as claimed: an event whose choices hold "stop" at any position, after
\* data events only: once it has been delivered whole, in either mode, onDone
\* was called once, start() returned, the stream is not errored and no frame
\* was enqueued for the event.
ChoicesOfEvent(e) == ChoicesOf(JsonParse(e.text))
HasStop(e) ==
  \E k \in 1 .. Len(ChoicesOfEvent(e)) : ChoicesOfEvent(e)[k] = "stop"
LengthBeforeStop(e) ==
  \E k \in 1 .. Len(ChoicesOfEvent(e)) :
    /\ ChoicesOfEvent(e)[k] = "length"
    /\ \A n \in 1 .. k - 1 : ChoicesOfEvent(e)[n] # "stop"

EndedWithDone(j) ==
  /\ OnDoneCount = 1
  /\ run = "returned"
  /\ state # "errored"
  /\ Frames = FramesOfData(SubSeq(events, 1, j - 1))

C18_AnyStopEndsWithDone ==
  \A j \in 1 .. Len(events) :
    ( /\ HasStop(events[j])
      /\ AllData(SubSeq(events, 1, j - 1))
      /\ EndOf(j) <= Delivered )
    => EndedWithDone(j)

\* C18 as amended: the same, unless the mode is "tokens" and a choice before
\* the first "stop" has finish_reason "length".
C18_FirstStopEndsWithDone ==
  \A j \in 1 .. Len(events) :
    ( /\ HasStop(events[j])
      /\ ~(mode = "tokens" /\ LengthBeforeStop(events[j]))
      /\ AllData(SubSeq(events, 1, j - 1))
      /\ EndOf(j) <= Delivered )
    => EndedWithDone(j)

C18_Witness ==
  /\ Len(events) = 3
  /\ events[1] = DataX
  /\ events[2] \in {NullStopEvent, StopLengthEvent}
  /\ mode = "tokens"
  /\ EndOf(2) <= Delivered
  /\ EndedWithDone(2)


\* C20: whenever start() takes a chunk from the source and appends its text
\* to the buffer, the buffer it appends to holds no boundary: every complete
\* event was taken out of it before.
C20_NoBoundaryBeforeAppend ==
  [][src' # src => IndexOfBoundary(buffer) = -1]_vars

\* A chunk is about to be appended to a buffer that the scan of an earlier
\* chunk left with the start of the next event, and with half a boundary.
C20_Witness ==
  /\ run = "iterating"
  /\ src # <<>>
  /\ Len(Frames) = 2
  /\ Len(buffer) > 1
  /\ buffer[Len(buffer)] = NL

====
